---- MODULE Spec2Model ----
(***************************************************************************)
(* memcached_exporter: the translation of memcached statistics into       *)
(* Prometheus observations (src/main.go).                                 *)
(*                                                                         *)
(* Go strings that are parsed are sequences of one-character strings      *)
(* (<<"1","0","0">> is "100"); map keys, metric names and label values    *)
(* are TLA+ strings. A float64 is [nan, v]: the not-a-number sentinel or  *)
(* an integer value; the raw fields of the model are signed decimal       *)
(* integers, so no fraction, exponent or infinity arises.                 *)
(***************************************************************************)
EXTENDS Integers, Sequences, FiniteSets, TLC

---------------------------------------------------------------------------
(* Constants of the program.                                               *)
namespace == "memcached"
subsystemLruCrawler == "lru_crawler"
subsystemSlab == "slab"

---------------------------------------------------------------------------
(* float64 values.                                                         *)
NaN == [nan |-> TRUE, v |-> 0]
F(n) == [nan |-> FALSE, v |-> n]
FAdd(a, b) == IF a.nan \/ b.nan THEN NaN ELSE F(a.v + b.v)
FSub(a, b) == IF a.nan \/ b.nan THEN NaN ELSE F(a.v - b.v)

(* Go strings.                                                             *)
Digits == <<"0", "1", "2", "3", "4", "5", "6", "7", "8", "9">>
DigitVal(ch) == CHOOSE d \in 0..9 : Digits[d + 1] = ch
IsDigit(ch) == \E d \in 1..10 : Digits[d] = ch

RECURSIVE Str(_)
Str(t) == IF t = <<>> THEN "" ELSE t[1] \o Str(Tail(t))

RECURSIVE Itoa(_)
Itoa(n) ==
  IF n < 0 THEN "-" \o Itoa(0 - n)
  ELSE IF n < 10 THEN Digits[n + 1]
  ELSE Itoa(n \div 10) \o Digits[(n % 10) + 1]

(* A Go map[string]string is a function over the keys it holds; reading a *)
(* key it does not hold gives the empty string.                           *)
Get(m, k) == IF k \in DOMAIN m THEN m[k] ELSE <<>>
Has(m, k) == k \in DOMAIN m

(* strconv.ParseFloat on a signed decimal integer: the value, or an error *)
(* with value 0.                                                           *)
RECURSIVE DigitsValue(_, _)
DigitsValue(t, acc) ==
  IF t = <<>> THEN acc ELSE DigitsValue(Tail(t), acc * 10 + DigitVal(t[1]))

AllDigits(t) == t # <<>> /\ \A i \in 1..Len(t) : IsDigit(t[i])

ParseFloat(t) ==
  LET signed == t # <<>> /\ t[1] \in {"+", "-"}
      body == IF signed THEN Tail(t) ELSE t
  IN IF AllDigits(body)
     THEN [v |-> F(IF signed /\ t[1] = "-" THEN 0 - DigitsValue(body, 0)
                                          ELSE DigitsValue(body, 0)),
           err |-> FALSE]
     ELSE [v |-> F(0), err |-> TRUE]

---------------------------------------------------------------------------
(* The metric catalog.                                                     *)
BuildFQName(ns, subsystem, name) ==
  IF name = "" THEN ""
  ELSE IF ns # "" /\ subsystem # "" THEN ns \o "_" \o subsystem \o "_" \o name
  ELSE IF ns # "" THEN ns \o "_" \o name
  ELSE IF subsystem # "" THEN subsystem \o "_" \o name
  ELSE name

NewDesc(fqName, variableLabels) ==
  [fqName |-> fqName, variableLabels |-> variableLabels]

NewExporter(server, timeout) ==
  [   address |-> server,
      timeout |-> timeout,
      up                       |-> NewDesc(BuildFQName(namespace, "", "up"), <<>>),
      uptime                   |-> NewDesc(BuildFQName(namespace, "", "uptime_seconds"), <<>>),
      version                  |-> NewDesc(BuildFQName(namespace, "", "version"), <<"version">>),
      bytesRead                |-> NewDesc(BuildFQName(namespace, "", "read_bytes_total"), <<>>),
      bytesWritten             |-> NewDesc(BuildFQName(namespace, "", "written_bytes_total"), <<>>),
      currentConnections       |-> NewDesc(BuildFQName(namespace, "", "current_connections"), <<>>),
      maxConnections           |-> NewDesc(BuildFQName(namespace, "", "max_connections"), <<>>),
      connectionsTotal         |-> NewDesc(BuildFQName(namespace, "", "connections_total"), <<>>),
      connsYieldedTotal        |-> NewDesc(BuildFQName(namespace, "", "connections_yielded_total"), <<>>),
      listenerDisabledTotal    |-> NewDesc(BuildFQName(namespace, "", "connections_listener_disabled_total"), <<>>),
      currentBytes             |-> NewDesc(BuildFQName(namespace, "", "current_bytes"), <<>>),
      limitBytes               |-> NewDesc(BuildFQName(namespace, "", "limit_bytes"), <<>>),
      commands                 |-> NewDesc(BuildFQName(namespace, "", "commands_total"), <<"command", "status">>),
      items                    |-> NewDesc(BuildFQName(namespace, "", "current_items"), <<>>),
      itemsTotal               |-> NewDesc(BuildFQName(namespace, "", "items_total"), <<>>),
      evictions                |-> NewDesc(BuildFQName(namespace, "", "items_evicted_total"), <<>>),
      reclaimed                |-> NewDesc(BuildFQName(namespace, "", "items_reclaimed_total"), <<>>),
      lruCrawlerEnabled        |-> NewDesc(BuildFQName(namespace, subsystemLruCrawler, "enabled"), <<>>),
      lruCrawlerSleep          |-> NewDesc(BuildFQName(namespace, subsystemLruCrawler, "sleep"), <<>>),
      lruCrawlerMaxItems       |-> NewDesc(BuildFQName(namespace, subsystemLruCrawler, "to_crawl"), <<>>),
      lruMaintainerThread      |-> NewDesc(BuildFQName(namespace, subsystemLruCrawler, "maintainer_thread"), <<>>),
      lruHotPercent            |-> NewDesc(BuildFQName(namespace, subsystemLruCrawler, "hot_percent"), <<>>),
      lruWarmPercent           |-> NewDesc(BuildFQName(namespace, subsystemLruCrawler, "warm_percent"), <<>>),
      lruHotMaxAgeFactor       |-> NewDesc(BuildFQName(namespace, subsystemLruCrawler, "hot_max_factor"), <<>>),
      lruWarmMaxAgeFactor      |-> NewDesc(BuildFQName(namespace, subsystemLruCrawler, "warm_max_factor"), <<>>),
      lruCrawlerStarts         |-> NewDesc(BuildFQName("namespace", subsystemLruCrawler, "starts"), <<>>),
      lruCrawlerReclaimed      |-> NewDesc(BuildFQName(namespace, subsystemLruCrawler, "reclaimed_total"), <<>>),
      lruCrawlerItemsChecked   |-> NewDesc(BuildFQName(namespace, subsystemLruCrawler, "items_checked_total"), <<>>),
      lruCrawlerMovesToCold    |-> NewDesc(BuildFQName(namespace, subsystemLruCrawler, "moves_to_cold_total"), <<>>),
      lruCrawlerMovesToWarm    |-> NewDesc(BuildFQName(namespace, subsystemLruCrawler, "moves_to_warm_total"), <<>>),
      lruCrawlerMovesWithinLru |-> NewDesc(BuildFQName(namespace, subsystemLruCrawler, "moves_within_lru_total"), <<>>),
      malloced                 |-> NewDesc(BuildFQName(namespace, "", "malloced_bytes"), <<>>),
      itemsNumber              |-> NewDesc(BuildFQName(namespace, subsystemSlab, "current_items"), <<"slab">>),
      itemsAge                 |-> NewDesc(BuildFQName(namespace, subsystemSlab, "items_age_seconds"), <<"slab">>),
      itemsCrawlerReclaimed    |-> NewDesc(BuildFQName(namespace, subsystemSlab, "items_crawler_reclaimed_total"), <<"slab">>),
      itemsEvicted             |-> NewDesc(BuildFQName(namespace, subsystemSlab, "items_evicted_total"), <<"slab">>),
      itemsEvictedNonzero      |-> NewDesc(BuildFQName(namespace, subsystemSlab, "items_evicted_nonzero_total"), <<"slab">>),
      itemsEvictedTime         |-> NewDesc(BuildFQName(namespace, subsystemSlab, "items_evicted_time_seconds"), <<"slab">>),
      itemsEvictedUnfetched    |-> NewDesc(BuildFQName(namespace, subsystemSlab, "items_evicted_unfetched_total"), <<"slab">>),
      itemsExpiredUnfetched    |-> NewDesc(BuildFQName(namespace, subsystemSlab, "items_expired_unfetched_total"), <<"slab">>),
      itemsOutofmemory         |-> NewDesc(BuildFQName(namespace, subsystemSlab, "items_outofmemory_total"), <<"slab">>),
      itemsReclaimed           |-> NewDesc(BuildFQName(namespace, subsystemSlab, "items_reclaimed_total"), <<"slab">>),
      itemsTailrepairs         |-> NewDesc(BuildFQName(namespace, subsystemSlab, "items_tailrepairs_total"), <<"slab">>),
      itemsMovesToCold         |-> NewDesc(BuildFQName(namespace, subsystemSlab, "items_moves_to_cold"), <<"slab">>),
      itemsMovesToWarm         |-> NewDesc(BuildFQName(namespace, subsystemSlab, "items_moves_to_warm"), <<"slab">>),
      itemsMovesWithinLru      |-> NewDesc(BuildFQName(namespace, subsystemSlab, "items_moves_within_lru"), <<"slab">>),
      slabsChunkSize           |-> NewDesc(BuildFQName(namespace, subsystemSlab, "chunk_size_bytes"), <<"slab">>),
      slabsChunksPerPage       |-> NewDesc(BuildFQName(namespace, subsystemSlab, "chunks_per_page"), <<"slab">>),
      slabsCurrentPages        |-> NewDesc(BuildFQName(namespace, subsystemSlab, "current_pages"), <<"slab">>),
      slabsCurrentChunks       |-> NewDesc(BuildFQName(namespace, subsystemSlab, "current_chunks"), <<"slab">>),
      slabsChunksUsed          |-> NewDesc(BuildFQName(namespace, subsystemSlab, "chunks_used"), <<"slab">>),
      slabsChunksFree          |-> NewDesc(BuildFQName(namespace, subsystemSlab, "chunks_free"), <<"slab">>),
      slabsChunksFreeEnd       |-> NewDesc(BuildFQName(namespace, subsystemSlab, "chunks_free_end"), <<"slab">>),
      slabsMemRequested        |-> NewDesc(BuildFQName(namespace, subsystemSlab, "mem_requested_bytes"), <<"slab">>),
      slabsCommands            |-> NewDesc(BuildFQName(namespace, subsystemSlab, "commands_total"), <<"slab", "command", "status">>) ]

(* Describe: the descriptors it sends on its channel, in order.            *)
Describe(ex) ==
  << ex.up, ex.uptime, ex.version, ex.bytesRead, ex.bytesWritten,
     ex.currentConnections, ex.maxConnections, ex.connectionsTotal,
     ex.connsYieldedTotal, ex.listenerDisabledTotal, ex.currentBytes,
     ex.limitBytes, ex.commands, ex.items, ex.itemsTotal, ex.evictions,
     ex.reclaimed, ex.lruCrawlerEnabled, ex.lruCrawlerSleep,
     ex.lruCrawlerMaxItems, ex.lruMaintainerThread, ex.lruHotPercent,
     ex.lruWarmPercent, ex.lruHotMaxAgeFactor, ex.lruWarmMaxAgeFactor,
     ex.lruCrawlerStarts, ex.lruCrawlerReclaimed, ex.lruCrawlerItemsChecked,
     ex.lruCrawlerMovesToCold, ex.lruCrawlerMovesToWarm,
     ex.lruCrawlerMovesWithinLru, ex.malloced, ex.itemsNumber, ex.itemsAge,
     ex.itemsCrawlerReclaimed, ex.itemsEvicted, ex.itemsEvictedNonzero,
     ex.itemsEvictedTime, ex.itemsEvictedUnfetched,
     ex.itemsExpiredUnfetched, ex.itemsOutofmemory, ex.itemsReclaimed,
     ex.itemsTailrepairs, ex.itemsExpiredUnfetched, ex.itemsMovesToCold,
     ex.itemsMovesToWarm, ex.itemsMovesWithinLru, ex.slabsChunkSize,
     ex.slabsChunksPerPage, ex.slabsCurrentPages, ex.slabsCurrentChunks,
     ex.slabsChunksUsed, ex.slabsChunksFree, ex.slabsChunksFreeEnd,
     ex.slabsMemRequested, ex.slabsCommands >>

---------------------------------------------------------------------------
(* Observations. One entry of a block is what one statement of Collect     *)
(* does: the metrics it sends (none or one) and the diagnostics it logs.   *)
MustNewConstMetric(desc, valueType, value, labelValues) ==
  [desc |-> desc, valueType |-> valueType, value |-> value,
   labelValues |-> labelValues]

Emit(desc, valueType, p, labelValues) ==
  [m |-> <<MustNewConstMetric(desc, valueType, p.v, labelValues)>>,
   log |-> p.log]

Errorf(msg, arg) == [msg |-> msg, arg |-> arg]
LogOnly(msg, arg) == [m |-> <<>>, log |-> <<Errorf(msg, arg)>>]
Lit(n) == [v |-> F(n), log |-> <<>>]

RECURSIVE Metrics(_)
Metrics(block) ==
  IF block = <<>> THEN <<>> ELSE Head(block).m \o Metrics(Tail(block))

RECURSIVE Logs(_)
Logs(block) ==
  IF block = <<>> THEN <<>> ELSE Head(block).log \o Logs(Tail(block))

---------------------------------------------------------------------------
(* The scalar parsers and the sum.                                         *)
(* Mutant: the value ParseFloat left is returned on an error.               *)
parseKeepsZero(stats, key) ==
  LET r == ParseFloat(Get(stats, key))
  IN IF r.err THEN [v |-> r.v, log |-> <<Errorf("Failed to parse", key)>>]
     ELSE [v |-> r.v, log |-> <<>>]

parse(stats, key) ==
  LET r == ParseFloat(Get(stats, key))
  IN IF r.err THEN [v |-> NaN, log |-> <<Errorf("Failed to parse", key)>>]
     ELSE [v |-> r.v, log |-> <<>>]

(* Mutant: any token but "yes" counts as disabled.                         *)
parseBoolDefaultsToZero(stats, key) ==
  IF Get(stats, key) = <<"y", "e", "s">> THEN [v |-> F(1), log |-> <<>>]
  ELSE [v |-> F(0), log |-> <<>>]

parseBool(stats, key) ==
  LET x == Get(stats, key)
  IN IF x = <<"y", "e", "s">> THEN [v |-> F(1), log |-> <<>>]
     ELSE IF x = <<"n", "o">> THEN [v |-> F(0), log |-> <<>>]
     ELSE [v |-> NaN, log |-> <<Errorf("Failed parse", key)>>]

RECURSIVE sumLoop(_, _, _)
sumLoop(stats, keys, s) ==
  IF keys = <<>> THEN [v |-> s, err |-> FALSE]
  ELSE LET r == ParseFloat(Get(stats, Head(keys)))
       IN IF r.err THEN [v |-> NaN, err |-> TRUE]
          ELSE sumLoop(stats, Tail(keys), FAdd(s, r.v))

sum(stats, keys) == sumLoop(stats, keys, F(0))

---------------------------------------------------------------------------
(* The blocks of Collect.                                                  *)
Ops == <<"get", "delete", "incr", "decr", "cas", "touch">>

itemsMetricsKeys ==
  <<"crawler_reclaimed", "evicted", "evicted_nonzero", "evicted_time",
    "evicted_unfetched", "expired_unfetched", "outofmemory", "reclaimed",
    "tailrepairs", "moves_to_cold", "moves_to_warm", "moves_within_lru">>

itemsMetrics(ex) ==
  [m \in {itemsMetricsKeys[i] : i \in 1..Len(itemsMetricsKeys)} |->
     CASE m = "crawler_reclaimed" -> ex.itemsCrawlerReclaimed
       [] m = "evicted"           -> ex.itemsEvicted
       [] m = "evicted_nonzero"   -> ex.itemsEvictedNonzero
       [] m = "evicted_time"      -> ex.itemsEvictedTime
       [] m = "evicted_unfetched" -> ex.itemsEvictedUnfetched
       [] m = "expired_unfetched" -> ex.itemsExpiredUnfetched
       [] m = "outofmemory"       -> ex.itemsOutofmemory
       [] m = "reclaimed"         -> ex.itemsReclaimed
       [] m = "tailrepairs"       -> ex.itemsTailrepairs
       [] m = "moves_to_cold"     -> ex.itemsMovesToCold
       [] m = "moves_to_warm"     -> ex.itemsMovesToWarm
       [] m = "moves_within_lru"  -> ex.itemsMovesWithinLru]

(* The loop over the command verbs, global scope: a hit and a miss each.   *)
RECURSIVE commandsLoop(_, _, _)
commandsLoop(ex, s, ops) ==
  IF ops = <<>> THEN <<>>
  ELSE LET op == Head(ops)
       IN << Emit(ex.commands, "counter", parse(s, op \o "_hits"), <<op, "hit">>),
             Emit(ex.commands, "counter", parse(s, op \o "_misses"), <<op, "miss">>) >>
          \o commandsLoop(ex, s, Tail(ops))

(* Mutant: with an unparsable CAS field, cmd_set itself is reported.       *)
setValuePartial(s) ==
  LET setCmd == ParseFloat(Get(s, "cmd_set"))
  IN IF ~setCmd.err
     THEN LET cas == sum(s, <<"cas_misses", "cas_hits", "cas_badval">>)
          IN IF ~cas.err
             THEN [v |-> FSub(setCmd.v, cas.v), log |-> <<>>]
             ELSE [v |-> setCmd.v, log |-> <<Errorf("Failed to parse cas", "")>>]
     ELSE [v |-> NaN, log |-> <<Errorf("Failed to parse set", "cmd_set")>>]

(* memcached includes cas operations again in cmd_set.                     *)
setValue(s) ==
  LET setCmd == ParseFloat(Get(s, "cmd_set"))
  IN IF ~setCmd.err
     THEN LET cas == sum(s, <<"cas_misses", "cas_hits", "cas_badval">>)
          IN IF ~cas.err
             THEN [v |-> FSub(setCmd.v, cas.v), log |-> <<>>]
             ELSE [v |-> NaN, log |-> <<Errorf("Failed to parse cas", "")>>]
     ELSE [v |-> NaN, log |-> <<Errorf("Failed to parse set", "cmd_set")>>]

GlobalBlock(ex, s) ==
  << Emit(ex.uptime, "counter", parse(s, "uptime"), <<>>),
     Emit(ex.version, "gauge", Lit(1), <<Str(Get(s, "version"))>>) >>
  \o commandsLoop(ex, s, Ops)
  \o << Emit(ex.commands, "counter", parse(s, "cas_badval"), <<"cas", "badval">>),
        Emit(ex.commands, "counter", parse(s, "cmd_flush"), <<"flush", "hit">>),
        Emit(ex.commands, "counter", setValue(s), <<"set", "hit">>),
        Emit(ex.currentBytes, "gauge", parse(s, "bytes"), <<>>),
        Emit(ex.limitBytes, "gauge", parse(s, "limit_maxbytes"), <<>>),
        Emit(ex.items, "gauge", parse(s, "curr_items"), <<>>),
        Emit(ex.itemsTotal, "counter", parse(s, "total_items"), <<>>),
        Emit(ex.bytesRead, "counter", parse(s, "bytes_read"), <<>>),
        Emit(ex.bytesWritten, "counter", parse(s, "bytes_written"), <<>>),
        Emit(ex.currentConnections, "gauge", parse(s, "curr_connections"), <<>>),
        Emit(ex.connectionsTotal, "counter", parse(s, "total_connections"), <<>>),
        Emit(ex.connsYieldedTotal, "counter", parse(s, "conn_yields"), <<>>),
        Emit(ex.listenerDisabledTotal, "counter", parse(s, "listen_disabled_num"), <<>>),
        Emit(ex.evictions, "counter", parse(s, "evictions"), <<>>),
        Emit(ex.reclaimed, "counter", parse(s, "reclaimed"), <<>>),
        Emit(ex.lruCrawlerStarts, "untyped", parse(s, "lru_crawler_starts"), <<>>),
        Emit(ex.lruCrawlerItemsChecked, "counter", parse(s, "crawler_items_checked"), <<>>),
        Emit(ex.lruCrawlerReclaimed, "counter", parse(s, "crawler_reclaimed"), <<>>),
        Emit(ex.lruCrawlerMovesToCold, "counter", parse(s, "moves_to_cold"), <<>>),
        Emit(ex.lruCrawlerMovesToWarm, "counter", parse(s, "moves_to_warm"), <<>>),
        Emit(ex.lruCrawlerMovesWithinLru, "counter", parse(s, "moves_within_lru"), <<>>),
        Emit(ex.malloced, "gauge", parse(s, "total_malloced"), <<>>) >>

(* Mutant: no presence check, an absent key gives a not-a-number filler.   *)
RECURSIVE itemsMetricsLoopNoSkip(_, _, _, _)
itemsMetricsLoopNoSkip(ex, slab, u, order) ==
  IF order = <<>> THEN <<>>
  ELSE <<Emit(itemsMetrics(ex)[Head(order)], "counter", parse(u, Head(order)), <<slab>>)>>
       \o itemsMetricsLoopNoSkip(ex, slab, u, Tail(order))

(* The loop over itemsMetrics for one slab class, its keys visited in the  *)
(* sequence order: a key the slab's mapping lacks is skipped.              *)
RECURSIVE itemsMetricsLoop(_, _, _, _)
itemsMetricsLoop(ex, slab, u, order) ==
  IF order = <<>> THEN <<>>
  ELSE LET m == Head(order)
           rest == itemsMetricsLoop(ex, slab, u, Tail(order))
       IN IF ~Has(u, m) THEN rest
          ELSE <<Emit(itemsMetrics(ex)[m], "counter", parse(u, m), <<slab>>)>> \o rest

ItemsBlock(ex, slabId, u, order) ==
  LET slab == Itoa(slabId)
  IN << Emit(ex.itemsNumber, "gauge", parse(u, "number"), <<slab>>),
        Emit(ex.itemsAge, "gauge", parse(u, "age"), <<slab>>) >>
     \o itemsMetricsLoop(ex, slab, u, order)

(* Mutant: a verb whose field the slab's mapping lacks is skipped, as the   *)
(* optional item counters are.                                             *)
RECURSIVE slabCommandsLoopSkip(_, _, _, _)
slabCommandsLoopSkip(ex, slab, v, ops) ==
  IF ops = <<>> THEN <<>>
  ELSE LET op == Head(ops)
       IN (IF ~Has(v, op \o "_hits") THEN <<>>
           ELSE <<Emit(ex.slabsCommands, "counter", parse(v, op \o "_hits"),
                       <<slab, op, "hit">>)>>)
          \o slabCommandsLoopSkip(ex, slab, v, Tail(ops))

RECURSIVE slabCommandsLoop(_, _, _, _)
slabCommandsLoop(ex, slab, v, ops) ==
  IF ops = <<>> THEN <<>>
  ELSE LET op == Head(ops)
       IN <<Emit(ex.slabsCommands, "counter", parse(v, op \o "_hits"), <<slab, op, "hit">>)>>
          \o slabCommandsLoop(ex, slab, v, Tail(ops))

(* Mutant: the slab scope sums the three CAS fields, like the global one.  *)
slabSetValueUnified(v) ==
  LET slabSetCmd == ParseFloat(Get(v, "cmd_set"))
  IN IF ~slabSetCmd.err
     THEN LET slabCas == sum(v, <<"cas_misses", "cas_hits", "cas_badval">>)
          IN IF ~slabCas.err
             THEN [v |-> FSub(slabSetCmd.v, slabCas.v), log |-> <<>>]
             ELSE [v |-> NaN, log |-> <<Errorf("Failed to parse cas", "")>>]
     ELSE [v |-> NaN, log |-> <<Errorf("Failed to parse set", "cmd_set")>>]

slabSetValue(v) ==
  LET slabSetCmd == ParseFloat(Get(v, "cmd_set"))
  IN IF ~slabSetCmd.err
     THEN LET slabCas == sum(v, <<"cas_hits", "cas_badval">>)
          IN IF ~slabCas.err
             THEN [v |-> FSub(slabSetCmd.v, slabCas.v), log |-> <<>>]
             ELSE [v |-> NaN, log |-> <<Errorf("Failed to parse cas", "")>>]
     ELSE [v |-> NaN, log |-> <<Errorf("Failed to parse set", "cmd_set")>>]

SlabBlock(ex, slabId, v) ==
  LET slab == Itoa(slabId)
  IN slabCommandsLoop(ex, slab, v, Ops)
     \o << Emit(ex.slabsCommands, "counter", parse(v, "cas_badval"), <<slab, "cas", "badval">>),
           Emit(ex.slabsCommands, "counter", slabSetValue(v), <<slab, "set", "hit">>),
           Emit(ex.slabsChunkSize, "gauge", parse(v, "chunk_size"), <<slab>>),
           Emit(ex.slabsChunksPerPage, "gauge", parse(v, "chunks_per_page"), <<slab>>),
           Emit(ex.slabsCurrentPages, "gauge", parse(v, "total_pages"), <<slab>>),
           Emit(ex.slabsCurrentChunks, "gauge", parse(v, "total_chunks"), <<slab>>),
           Emit(ex.slabsChunksUsed, "gauge", parse(v, "used_chunks"), <<slab>>),
           Emit(ex.slabsChunksFree, "gauge", parse(v, "free_chunks"), <<slab>>),
           Emit(ex.slabsChunksFreeEnd, "gauge", parse(v, "free_chunks_end"), <<slab>>),
           Emit(ex.slabsMemRequested, "gauge", parse(v, "mem_requested"), <<slab>>) >>

SettingsBlock(ex, settings) ==
  << Emit(ex.maxConnections, "gauge", parse(settings, "maxconns"), <<>>),
     Emit(ex.lruCrawlerEnabled, "gauge", parseBool(settings, "lru_crawler"), <<>>),
     Emit(ex.lruCrawlerSleep, "gauge", parse(settings, "lru_crawler_sleep"), <<>>),
     Emit(ex.lruCrawlerMaxItems, "gauge", parse(settings, "lru_crawler_tocrawl"), <<>>),
     Emit(ex.lruMaintainerThread, "gauge", parseBool(settings, "lru_maintainer_thread"), <<>>),
     Emit(ex.lruHotPercent, "gauge", parse(settings, "hot_lru_pct"), <<>>),
     Emit(ex.lruWarmPercent, "gauge", parse(settings, "warm_lru_pct"), <<>>),
     Emit(ex.lruHotMaxAgeFactor, "gauge", parse(settings, "hot_max_factor"), <<>>),
     Emit(ex.lruWarmMaxAgeFactor, "gauge", parse(settings, "warm_max_factor"), <<>>) >>

---------------------------------------------------------------------------
(* The bounds of the model.                                                *)
MaxOptional == 2  \* optional item counters one slab's mapping may hold
MaxLen == 3       \* length of the raw strings given to the scalar parsers

(* Raw field values.                                                       *)
Bad == <<"a", "b", "c">>
Absent == <<"<absent>">>

Del(m, k) == [x \in (DOMAIN m) \ {k} |-> m[x]]
With(m, k, o) == IF o = Absent THEN Del(m, k) ELSE (k :> o) @@ m
EmptyMap == [x \in {} |-> <<>>]

Range(f) == {f[x] : x \in DOMAIN f}
Perms(S) ==
  {f \in [1..Cardinality(S) -> S] : \A i, j \in 1..Cardinality(S) : f[i] = f[j] => i = j}

GlobalKeys ==
  {"uptime", "version", "cas_badval", "cmd_flush", "cmd_set", "bytes",
   "limit_maxbytes", "curr_items", "total_items", "bytes_read", "bytes_written",
   "curr_connections", "total_connections", "conn_yields", "listen_disabled_num",
   "evictions", "reclaimed", "lru_crawler_starts", "crawler_items_checked",
   "crawler_reclaimed", "moves_to_cold", "moves_to_warm", "moves_within_lru",
   "total_malloced"}
  \cup {Ops[i] \o "_hits" : i \in 1..Len(Ops)}
  \cup {Ops[i] \o "_misses" : i \in 1..Len(Ops)}

SlabKeys ==
  {"cas_badval", "cmd_set", "chunk_size", "chunks_per_page", "total_pages",
   "total_chunks", "used_chunks", "free_chunks", "free_chunks_end", "mem_requested"}
  \cup {Ops[i] \o "_hits" : i \in 1..Len(Ops)}

SettingsKeys ==
  {"maxconns", "lru_crawler", "lru_crawler_sleep", "lru_crawler_tocrawl",
   "lru_maintainer_thread", "hot_lru_pct", "warm_lru_pct", "hot_max_factor",
   "warm_max_factor"}

OptionalKeys == Range(itemsMetricsKeys)

(* A healthy server: the spec's example for the derived set count.         *)
GlobalBase ==
  [k \in GlobalKeys |->
     CASE k = "version"    -> <<"1", ".", "5">>
       [] k = "cmd_set"    -> <<"1", "0", "0">>
       [] k = "cas_misses" -> <<"5">>
       [] k = "cas_hits"   -> <<"3">>
       [] k = "cas_badval" -> <<"2">>
       [] k = "uptime"     -> <<"6", "0">>
       [] OTHER            -> <<"7">>]

SlabBase ==
  [k \in SlabKeys |->
     CASE k = "cmd_set"    -> <<"4", "0">>
       [] k = "cas_hits"   -> <<"4">>
       [] k = "cas_badval" -> <<"1">>
       [] k = "chunk_size" -> <<"9", "6">>
       [] OTHER            -> <<"8">>]

ItemBase == ("number" :> <<"1", "1">>) @@ ("age" :> <<"3">>)

SettingsBase ==
  [k \in SettingsKeys |->
     CASE k = "lru_crawler"           -> <<"y", "e", "s">>
       [] k = "lru_maintainer_thread" -> <<"n", "o">>
       [] k = "maxconns"              -> <<"1", "0", "2", "4">>
       [] OTHER                       -> <<"2", "0">>]

Options(base) == {Absent, Bad, base, <<"7">>}

(* Global mappings: the four fields of the derivation vary together, and   *)
(* every field alone.                                                      *)
GlobalsDerive ==
  {With(With(With(With(GlobalBase, "cmd_set", a), "cas_misses", b), "cas_hits", c),
        "cas_badval", d) :
     a \in Options(<<"1", "0", "0">>), b \in Options(<<"5">>),
     c \in Options(<<"3">>), d \in Options(<<"2">>)}

GlobalsOne == {With(GlobalBase, k, o) : k \in GlobalKeys, o \in {Absent, Bad}}

SlabsDerive ==
  {With(With(With(SlabBase, "cmd_set", a), "cas_hits", c), "cas_badval", d) :
     a \in Options(<<"4", "0">>), c \in Options(<<"4">>), d \in Options(<<"1">>)}

SlabsOne == {With(SlabBase, k, o) : k \in SlabKeys, o \in {Absent, Bad}}

(* A slab mapping may also carry a cas_misses field.                       *)
SlabsMisses == {With(v, "cas_misses", o) : v \in SlabsDerive, o \in {<<"9">>, Bad}}

(* Item mappings: each optional counter alone, with each kind of value,   *)
(* and runs of up to MaxOptional counters that follow one another in       *)
(* itemsMetrics.                                                           *)
Run(i, n) == {itemsMetricsKeys[j] : j \in i..(i + n - 1)}

ItemsOptional ==
  {(m :> val) @@ ItemBase : m \in OptionalKeys, val \in {<<"0">>, <<"5">>, Bad}}
  \cup
  {[k \in Run(i, n) |-> IF k = itemsMetricsKeys[i] THEN <<"0">> ELSE <<"4", "2">>]
     @@ ItemBase :
     n \in 2..MaxOptional, i \in 1..(Len(itemsMetricsKeys) - MaxOptional + 1)}

ItemsOne == {With(ItemBase, k, o) : k \in {"number", "age"}, o \in {Absent, Bad}}

SettingsOne ==
  {With(SettingsBase, k, o) : k \in SettingsKeys, o \in {Absent, Bad}}
  \cup {With(SettingsBase, k, o) :
          k \in {"lru_crawler", "lru_maintainer_thread"},
          o \in {<<"y", "e", "s">>, <<"n", "o">>, <<"1">>, <<"0">>, <<"o", "n">>,
                 <<"t", "r", "u", "e">>, <<"Y", "e", "s">>, <<>>}}

ServerStats(s, items, slabs) == [Stats |-> s, Items |-> items, Slabs |-> slabs]

BaseServer == ServerStats(GlobalBase, (1 :> ItemBase), (1 :> SlabBase))
BaseSettings == ("a1" :> SettingsBase)

(* What the server reports: the records of "stats" and of "stats          *)
(* settings", by server address.                                           *)
Snapshots ==
  {[stats |-> ("a1" :> [BaseServer EXCEPT !.Stats = g]), settings |-> BaseSettings] :
     g \in GlobalsDerive \cup GlobalsOne}
  \cup
  {[stats |-> ("a1" :> ServerStats(g, EmptyMap, slabs)), settings |-> BaseSettings] :
     g \in {GlobalBase, With(GlobalBase, "cmd_set", Bad)},
     slabs \in {(1 :> v) : v \in SlabsDerive \cup SlabsOne \cup SlabsMisses}
            \cup {(1 :> v) @@ (2 :> w) :
                    v \in SlabsDerive, w \in {SlabBase, With(SlabBase, "cmd_set", Bad)}}}
  \cup
  {[stats |-> ("a1" :> ServerStats(GlobalBase, items, EmptyMap)), settings |-> BaseSettings] :
     items \in {(1 :> u) : u \in ItemsOptional \cup ItemsOne}
            \cup {(1 :> u) @@ (12 :> ItemBase) : u \in ItemsOne}}
  \cup
  {[stats |-> st, settings |-> BaseSettings] :
     st \in {EmptyMap,
             ("a1" :> BaseServer) @@
             ("a2" :> ServerStats(With(GlobalBase, "cmd_set", <<"7">>),
                                  (2 :> ItemBase), EmptyMap))}}
  \cup
  {[stats |-> ("a1" :> BaseServer), settings |-> se] :
     se \in {EmptyMap, ("a1" :> SettingsBase) @@ ("a2" :> With(SettingsBase, "maxconns", Bad))}
         \cup {("a1" :> x) : x \in SettingsOne}}

SnapshotsConc ==
  {[stats |-> st, settings |-> se] :
     st \in {EmptyMap,
             ("a1" :> BaseServer),
             ("a1" :> ServerStats(With(GlobalBase, "cmd_set", Bad),
                                  (1 :> (("evicted" :> <<"0">>) @@ ItemBase)),
                                  (1 :> SlabBase) @@ (2 :> With(SlabBase, "cas_hits", Bad))))},
     se \in {EmptyMap, BaseSettings}}

---------------------------------------------------------------------------
(* The state.                                                              *)
Calls == {1, 2}

VARIABLES
  e,         \* the Exporter NewExporter built: address, timeout, descriptors
  provider,  \* what the memcached server reports at present
  call,      \* per Collect call: its position and its local variables
  ch,        \* per Collect call: the metrics sent on its channel, in order
  log,       \* per Collect call: the diagnostics it logged, in order
  dch,       \* the descriptors Describe sent on its channel, in order
  arg,       \* scalar parsers: the mapping and the keys given
  ret        \* scalar parsers: the function applied and what it returned

vars == <<e, provider, call, ch, log, dch, arg, ret>>

Idle ==
  [pc |-> "idle", newErr |-> "none", statsErr |-> "none", settingsErr |-> "none",
   stats |-> EmptyMap, left |-> {}, cur |-> "", leftItems |-> {}, leftSlabs |-> {},
   statsSettings |-> EmptyMap, leftSettings |-> {}]

NoArg == [stats |-> EmptyMap, keys |-> <<>>]
NoRet == [fn |-> "none"]

(* The client library: a failed fetch returns an error and no records.     *)
ClientStats(p, ok) ==
  IF ok THEN [stats |-> p.stats, err |-> "ok"] ELSE [stats |-> EmptyMap, err |-> "err"]

ClientStatsSettings(p, ok) ==
  IF ok THEN [settings |-> p.settings, err |-> "ok"]
  ELSE [settings |-> EmptyMap, err |-> "err"]

(* Mutant: the channel is kept on the Exporter, where the first call put  *)
(* it.                                                                     *)
SendShared(c, block) ==
  /\ ch' = [ch EXCEPT ![1] = @ \o Metrics(block)]
  /\ log' = [log EXCEPT ![1] = @ \o Logs(block)]

(* ch <- metric, and the diagnostics of the statements that built it.      *)
Send(c, block) ==
  /\ ch' = [ch EXCEPT ![c] = @ \o Metrics(block)]
  /\ log' = [log EXCEPT ![c] = @ \o Logs(block)]

(* The exits of the loops over the slab classes and the server records.    *)
Advance(l) ==
  LET a1 == IF l.pc = "items" /\ l.leftItems = {} THEN [l EXCEPT !.pc = "slabs"] ELSE l
      a2 == IF a1.pc = "slabs" /\ a1.leftSlabs = {} THEN [a1 EXCEPT !.pc = "servers"] ELSE a1
  IN IF a2.pc = "servers" /\ a2.left = {} THEN [a2 EXCEPT !.pc = "settings"] ELSE a2

(* The order in which range visits the keys of itemsMetrics: any; the keys *)
(* the slab's mapping holds in any order, the others after them.           *)
Orders(u) ==
  {p \o SelectSeq(itemsMetricsKeys, LAMBDA k : ~Has(u, k)) :
     p \in Perms(OptionalKeys \cap DOMAIN u)}

---------------------------------------------------------------------------
(* Collect, step by step. A step is one fetch, or one iteration of one of  *)
(* its loops: within an iteration the call reads the Exporter and its own  *)
(* locals and sends on its own channel.                                    *)

(* memcache.New(e.address): on an error, up = 0 and return.                *)
CollectNew(c) ==
  /\ call[c].pc = "idle"
  /\ \E ok \in BOOLEAN :
       IF ok
       THEN /\ call' = [call EXCEPT ![c] = [@ EXCEPT !.pc = "stats", !.newErr = "ok"]]
            /\ UNCHANGED <<ch, log>>
       ELSE /\ call' = [call EXCEPT ![c] = [@ EXCEPT !.pc = "done", !.newErr = "err"]]
            /\ Send(c, <<Emit(e.up, "gauge", Lit(0), <<>>),
                         LogOnly("Failed to connect to memcached", "")>>)
  /\ UNCHANGED <<e, provider, dch, arg, ret>>

(* Mutant: no return after a failed stats fetch.                           *)
CollectStatsNoReturn(c) ==
  /\ call[c].pc = "stats"
  /\ \E ok \in BOOLEAN :
       LET r == ClientStats(provider, ok)
       IN /\ call' = [call EXCEPT ![c] =
                        Advance([@ EXCEPT !.pc = "servers", !.statsErr = r.err,
                                           !.stats = r.stats,
                                           !.left = DOMAIN r.stats])]
          /\ Send(c, IF r.err # "ok"
                     THEN <<Emit(e.up, "gauge", Lit(0), <<>>),
                            LogOnly("Failed to collect stats from memcached", "")>>
                     ELSE <<Emit(e.up, "gauge", Lit(1), <<>>)>>)
  /\ UNCHANGED <<e, provider, dch, arg, ret>>

(* c.Stats(): on an error, up = 0 and return; else up = 1.                 *)
CollectStats(c) ==
  /\ call[c].pc = "stats"
  /\ \E ok \in BOOLEAN :
       LET r == ClientStats(provider, ok)
       IN IF r.err # "ok"
          THEN /\ call' = [call EXCEPT ![c] = [@ EXCEPT !.pc = "done", !.statsErr = "err"]]
               /\ Send(c, <<Emit(e.up, "gauge", Lit(0), <<>>),
                            LogOnly("Failed to collect stats from memcached", "")>>)
          ELSE /\ call' = [call EXCEPT ![c] =
                             Advance([@ EXCEPT !.pc = "servers", !.statsErr = "ok",
                                                !.stats = r.stats,
                                                !.left = DOMAIN r.stats])]
               /\ Send(c, <<Emit(e.up, "gauge", Lit(1), <<>>)>>)
  /\ UNCHANGED <<e, provider, dch, arg, ret>>

(* Mutant: a server record another cycle has reported is not reported     *)
(* again.                                                                  *)
CollectServerOnce(c) ==
  /\ call[c].pc = "servers"
  /\ \E a \in call[c].left :
       LET t == call[c].stats[a]
       IN /\ call' = [call EXCEPT ![c] =
                        Advance([@ EXCEPT !.pc = "items", !.cur = a,
                                           !.left = @ \ {a},
                                           !.leftItems = DOMAIN t.Items,
                                           !.leftSlabs = DOMAIN t.Slabs])]
          /\ Send(c, IF \E d \in Calls \ {c} :
                          call[d].pc = "done" /\ a \in DOMAIN call[d].stats
                     THEN <<>>
                     ELSE GlobalBlock(e, t.Stats))
  /\ UNCHANGED <<e, provider, dch, arg, ret>>

(* One iteration of the loop over the server records, up to its loops      *)
(* over the slab classes.                                                  *)
CollectServer(c) ==
  /\ call[c].pc = "servers"
  /\ \E a \in call[c].left :
       LET t == call[c].stats[a]
       IN /\ call' = [call EXCEPT ![c] =
                        Advance([@ EXCEPT !.pc = "items", !.cur = a,
                                           !.left = @ \ {a},
                                           !.leftItems = DOMAIN t.Items,
                                           !.leftSlabs = DOMAIN t.Slabs])]
          /\ Send(c, GlobalBlock(e, t.Stats))
  /\ UNCHANGED <<e, provider, dch, arg, ret>>

(* One iteration of the loop over t.Items.                                 *)
CollectItems(c) ==
  /\ call[c].pc = "items"
  /\ \E slab \in call[c].leftItems :
       LET u == call[c].stats[call[c].cur].Items[slab]
       IN \E order \in Orders(u) :
            /\ call' = [call EXCEPT ![c] = Advance([@ EXCEPT !.leftItems = @ \ {slab}])]
            /\ Send(c, ItemsBlock(e, slab, u, order))
  /\ UNCHANGED <<e, provider, dch, arg, ret>>

(* One iteration of the loop over t.Slabs.                                 *)
CollectSlabs(c) ==
  /\ call[c].pc = "slabs"
  /\ \E slab \in call[c].leftSlabs :
       LET v == call[c].stats[call[c].cur].Slabs[slab]
       IN /\ call' = [call EXCEPT ![c] = Advance([@ EXCEPT !.leftSlabs = @ \ {slab}])]
          /\ Send(c, SlabBlock(e, slab, v))
  /\ UNCHANGED <<e, provider, dch, arg, ret>>

(* Mutant: a failed settings fetch reports the server as down.             *)
CollectSettingsDowngrade(c) ==
  /\ call[c].pc = "settings"
  /\ \E ok \in BOOLEAN :
       LET r == ClientStatsSettings(provider, ok)
       IN /\ call' = [call EXCEPT ![c] =
                        [@ EXCEPT !.pc = IF DOMAIN r.settings = {} THEN "done"
                                         ELSE "settingsLoop",
                                  !.settingsErr = r.err,
                                  !.statsSettings = r.settings,
                                  !.leftSettings = DOMAIN r.settings]]
          /\ Send(c, IF r.err # "ok"
                     THEN <<Emit(e.up, "gauge", Lit(0), <<>>),
                            LogOnly("Could not query stats settings", "")>>
                     ELSE <<>>)
  /\ UNCHANGED <<e, provider, dch, arg, ret>>

(* Mutant: after a failed settings fetch the settings are reported from an *)
(* empty mapping.                                                          *)
CollectSettingsFiller(c) ==
  /\ call[c].pc = "settings"
  /\ \E ok \in BOOLEAN :
       LET r == ClientStatsSettings(provider, ok)
       IN /\ call' = [call EXCEPT ![c] =
                        [@ EXCEPT !.pc = IF DOMAIN r.settings = {} THEN "done"
                                         ELSE "settingsLoop",
                                  !.settingsErr = r.err,
                                  !.statsSettings = r.settings,
                                  !.leftSettings = DOMAIN r.settings]]
          /\ Send(c, IF r.err # "ok"
                     THEN <<LogOnly("Could not query stats settings", "")>>
                          \o SettingsBlock(e, EmptyMap)
                     ELSE <<>>)
  /\ UNCHANGED <<e, provider, dch, arg, ret>>

(* c.StatsSettings(): an error is logged, and the loop over the records    *)
(* follows in either case.                                                 *)
CollectSettings(c) ==
  /\ call[c].pc = "settings"
  /\ \E ok \in BOOLEAN :
       LET r == ClientStatsSettings(provider, ok)
       IN /\ call' = [call EXCEPT ![c] =
                        [@ EXCEPT !.pc = IF DOMAIN r.settings = {} THEN "done"
                                         ELSE "settingsLoop",
                                  !.settingsErr = r.err,
                                  !.statsSettings = r.settings,
                                  !.leftSettings = DOMAIN r.settings]]
          /\ Send(c, IF r.err # "ok"
                     THEN <<LogOnly("Could not query stats settings", "")>>
                     ELSE <<>>)
  /\ UNCHANGED <<e, provider, dch, arg, ret>>

(* One iteration of the loop over statsSettings.                           *)
CollectSettingsLoop(c) ==
  /\ call[c].pc = "settingsLoop"
  /\ \E a \in call[c].leftSettings :
       /\ call' = [call EXCEPT ![c] =
                     [@ EXCEPT !.pc = IF call[c].leftSettings = {a} THEN "done" ELSE "settingsLoop",
                               !.leftSettings = @ \ {a}]]
       /\ Send(c, SettingsBlock(e, call[c].statsSettings[a]))
  /\ UNCHANGED <<e, provider, dch, arg, ret>>

Collect(c) ==
  \/ CollectNew(c)
  \/ CollectStats(c)
  \/ CollectServer(c)
  \/ CollectItems(c)
  \/ CollectSlabs(c)
  \/ CollectSettings(c)
  \/ CollectSettingsLoop(c)

---------------------------------------------------------------------------
(* Scrapes in succession: a Collect call starts when the one before it has *)
(* returned, and the server reports the same throughout.                   *)
InitCommon ==
  /\ e = NewExporter("localhost:11211", "1s")
  /\ call = [c \in Calls |-> Idle]
  /\ ch = [c \in Calls |-> <<>>]
  /\ log = [c \in Calls |-> <<>>]

Init ==
  /\ InitCommon
  /\ dch = <<>>
  /\ provider \in Snapshots
  /\ arg = NoArg
  /\ ret = NoRet

InSuccession(c) == \A d \in Calls : d < c => call[d].pc = "done"

(* prometheus.MustRegister(NewExporter(...)): the registry has the new     *)
(* collector describe itself, once, before the first scrape is served.     *)
Register ==
  /\ dch = <<>>
  /\ dch' = Describe(e)
  /\ UNCHANGED <<e, provider, call, ch, log, arg, ret>>

CollectInSuccession(c) == dch # <<>> /\ InSuccession(c) /\ CollectNew(c)

Next ==
  \/ Register
  \/ \E c \in Calls :
       \/ CollectInSuccession(c)
       \/ CollectStats(c)
       \/ CollectServer(c)
       \/ CollectItems(c)
       \/ CollectSlabs(c)
       \/ CollectSettings(c)
       \/ CollectSettingsLoop(c)

Spec == Init /\ [][Next]_vars

---------------------------------------------------------------------------
(* Overlapping scrapes: the Collect calls interleave step by step, and the *)
(* server's statistics change at any time.                                 *)
InitConc ==
  /\ InitCommon
  /\ dch = Describe(e)
  /\ provider \in SnapshotsConc
  /\ arg = NoArg
  /\ ret = NoRet

ServerChange ==
  /\ provider' \in SnapshotsConc \ {provider}
  /\ UNCHANGED <<e, call, ch, log, dch, arg, ret>>

(* The calls are alike: the one named 1 is the one that starts first.      *)
CollectOverlapping(c) ==
  /\ \A d \in Calls : d < c => call[d].pc # "idle"
  /\ CollectNew(c)

NextConc ==
  \/ ServerChange
  \/ \E c \in Calls :
       \/ CollectOverlapping(c)
       \/ CollectStats(c)
       \/ CollectServer(c)
       \/ CollectItems(c)
       \/ CollectSlabs(c)
       \/ CollectSettings(c)
       \/ CollectSettingsLoop(c)

SpecConc == InitConc /\ [][NextConc]_vars

---------------------------------------------------------------------------
(* The scalar parsers alone, on every short raw string.                    *)
StringsOver(A, n) == UNION {[1..k -> A] : k \in 0..n}

RawStrings ==
  StringsOver({"0", "1", "9", "-", "+", "a"}, MaxLen)
  \cup StringsOver({"y", "e", "s", "n", "o"}, MaxLen)

ShortStrings == StringsOver({"0", "5", "a"}, 1) \cup {<<"1", "2">>, <<"-", "3">>}

ParseMaps ==
  {EmptyMap}
  \cup {("x" :> s) : s \in RawStrings}
  \cup {("x" :> s) @@ ("y" :> t) : s \in ShortStrings, t \in ShortStrings}

ParseKeys == {<<"x">>, <<"y">>, <<"x", "y">>, <<"y", "x">>, <<"x", "y", "z">>}

InitParse ==
  /\ InitCommon
  /\ dch = <<>>
  /\ provider = [stats |-> EmptyMap, settings |-> EmptyMap]
  /\ arg \in [stats : ParseMaps, keys : ParseKeys]
  /\ ret = NoRet

CallParse ==
  /\ ret = NoRet
  /\ Len(arg.keys) = 1
  /\ LET r == parse(arg.stats, arg.keys[1])
     IN ret' = [fn |-> "parse", v |-> r.v, log |-> r.log]
  /\ UNCHANGED <<e, provider, call, ch, log, dch, arg>>

CallParseBool ==
  /\ ret = NoRet
  /\ Len(arg.keys) = 1
  /\ LET r == parseBool(arg.stats, arg.keys[1])
     IN ret' = [fn |-> "parseBool", v |-> r.v, log |-> r.log]
  /\ UNCHANGED <<e, provider, call, ch, log, dch, arg>>

CallSum ==
  /\ ret = NoRet
  /\ LET r == sum(arg.stats, arg.keys)
     IN ret' = [fn |-> "sum", v |-> r.v, err |-> r.err]
  /\ UNCHANGED <<e, provider, call, ch, log, dch, arg>>

NextParse == CallParse \/ CallParseBool \/ CallSum

SpecParse == InitParse /\ [][NextParse]_vars

---------------------------------------------------------------------------
(* Properties.                                                             *)
Done(c) == call[c].pc = "done"
Reached(c) == call[c].statsErr = "ok"

BagOf(seq) == [o \in Range(seq) |-> Cardinality({i \in DOMAIN seq : seq[i] = o})]

Observation(fqName, variableLabels, valueType, value, labelValues) ==
  [desc |-> [fqName |-> fqName, variableLabels |-> variableLabels],
   valueType |-> valueType, value |-> value, labelValues |-> labelValues]

UpObservation(n) == Observation("memcached_up", <<>>, "gauge", F(n), <<>>)

SettingsIdentifiers ==
  {"memcached_max_connections", "memcached_lru_crawler_enabled",
   "memcached_lru_crawler_sleep", "memcached_lru_crawler_to_crawl",
   "memcached_lru_crawler_maintainer_thread", "memcached_lru_crawler_hot_percent",
   "memcached_lru_crawler_warm_percent", "memcached_lru_crawler_hot_max_factor",
   "memcached_lru_crawler_warm_max_factor"}

IsSettingsDerived(o) == o.desc.fqName \in SettingsIdentifiers
StatsDerived(seq) == SelectSeq(seq, LAMBDA o : ~IsSettingsDerived(o))

(* The number a raw string denotes, if it is a decimal numeral.            *)
IsNumeral(t) ==
  /\ Len(t) >= 1
  /\ IF t[1] \in {"+", "-"}
     THEN Len(t) >= 2 /\ \A i \in 2..Len(t) : t[i] \in Range(Digits)
     ELSE \A i \in 1..Len(t) : t[i] \in Range(Digits)

RECURSIVE Magnitude(_)
Magnitude(t) ==
  IF t = <<>> THEN 0
  ELSE IF t[Len(t)] \in {"+", "-"} THEN 0
  ELSE Magnitude(SubSeq(t, 1, Len(t) - 1)) * 10 + DigitVal(t[Len(t)])

NumeralValue(t) == IF t[1] = "-" THEN 0 - Magnitude(Tail(t)) ELSE Magnitude(t)

Parsable(m, k) == k \in DOMAIN m /\ IsNumeral(m[k])
FieldValue(m, k) == IF Parsable(m, k) THEN F(NumeralValue(m[k])) ELSE NaN

SlabLabel(slab) ==
  CASE slab = 1 -> "1" [] slab = 2 -> "2" [] slab = 12 -> "12"

(* How often a call sent an observation of this identifier and labels,     *)
(* and the values it sent for them.                                        *)
Sent(c, fqName, labelValues) ==
  {i \in DOMAIN ch[c] :
     ch[c][i].desc.fqName = fqName /\ ch[c][i].labelValues = labelValues}

SentValues(c, fqName, labelValues) ==
  {ch[c][i].value : i \in Sent(c, fqName, labelValues)}

Logged(c, msg) == {i \in DOMAIN log[c] : log[c][i].msg = msg}

(* C1: when client construction or the stats fetch fails, the cycle's      *)
(* output is exactly one observation, "up" with value 0, the cycle is over *)
(* and it did not attempt the settings fetch.                              *)
C1_FailFast ==
  \A c \in Calls :
    (call[c].newErr = "err" \/ call[c].statsErr = "err") =>
      /\ ch[c] = <<UpObservation(0)>>
      /\ Done(c)
      /\ call[c].settingsErr = "none"
      /\ call[c].statsSettings = EmptyMap

C1_Witness ==
  /\ call[1].newErr = "err" /\ Done(1)
  /\ call[2].newErr = "ok" /\ call[2].statsErr = "err" /\ Done(2)
  /\ provider.stats # EmptyMap

(* C2: when the stats fetch succeeds and the settings fetch fails, the     *)
(* output holds "up" = 1, no settings-derived observation, and the same    *)
(* stats-derived observations as a cycle whose settings fetch succeeded.   *)
C2_SettingsFailSoft ==
  \A c \in Calls :
    (Done(c) /\ Reached(c) /\ call[c].settingsErr = "err") =>
      /\ ch[c][1] = UpObservation(1)
      /\ \A i \in DOMAIN ch[c] : ~IsSettingsDerived(ch[c][i])
      /\ \A d \in Calls :
           (Done(d) /\ Reached(d) /\ call[d].settingsErr = "ok") =>
             BagOf(StatsDerived(ch[d])) = BagOf(ch[c])

C2_Witness ==
  /\ Done(1) /\ Reached(1) /\ call[1].settingsErr = "ok"
  /\ Done(2) /\ Reached(2) /\ call[2].settingsErr = "err"
  /\ \E i \in DOMAIN ch[1] : IsSettingsDerived(ch[1][i])
  /\ Len(ch[2]) > 1

GlobalSetExpected(s) ==
  IF /\ Parsable(s, "cmd_set") /\ Parsable(s, "cas_misses")
     /\ Parsable(s, "cas_hits") /\ Parsable(s, "cas_badval")
  THEN F(NumeralValue(s["cmd_set"])
         - (NumeralValue(s["cas_misses"]) + NumeralValue(s["cas_hits"])
            + NumeralValue(s["cas_badval"])))
  ELSE NaN

SlabSetExpected(v) ==
  IF Parsable(v, "cmd_set") /\ Parsable(v, "cas_hits") /\ Parsable(v, "cas_badval")
  THEN F(NumeralValue(v["cmd_set"])
         - (NumeralValue(v["cas_hits"]) + NumeralValue(v["cas_badval"])))
  ELSE NaN

SlabsOf(c) ==
  {<<a, slab>> : a \in DOMAIN call[c].stats, slab \in {1, 2, 12}} \cap
  {x \in (DOMAIN call[c].stats) \X {1, 2, 12} : x[2] \in DOMAIN call[c].stats[x[1]].Slabs}

CasFailures(c) ==
  Cardinality({a \in DOMAIN call[c].stats :
                 LET s == call[c].stats[a].Stats
                 IN /\ Parsable(s, "cmd_set")
                    /\ ~(Parsable(s, "cas_misses") /\ Parsable(s, "cas_hits")
                         /\ Parsable(s, "cas_badval"))})
  + Cardinality({x \in SlabsOf(c) :
                   LET v == call[c].stats[x[1]].Slabs[x[2]]
                   IN /\ Parsable(v, "cmd_set")
                      /\ ~(Parsable(v, "cas_hits") /\ Parsable(v, "cas_badval"))})

(* C3: the global (command = set, status = hit) observation is cmd_set -   *)
(* (cas_misses + cas_hits + cas_badval) when the four fields are present   *)
(* and parsable, and not-a-number otherwise; one per server record. With   *)
(* cmd_set unparsable the CAS sum is not evaluated: its failure is not     *)
(* among the diagnostics.                                                  *)
C3_GlobalSetDerivation ==
  \A c \in Calls :
    (Done(c) /\ Reached(c)) =>
      /\ SentValues(c, "memcached_commands_total", <<"set", "hit">>)
           = {GlobalSetExpected(call[c].stats[a].Stats) : a \in DOMAIN call[c].stats}
      /\ Cardinality(Sent(c, "memcached_commands_total", <<"set", "hit">>))
           = Cardinality(DOMAIN call[c].stats)
      /\ Cardinality(Logged(c, "Failed to parse cas")) = CasFailures(c)

C3_Witness ==
  /\ Done(1) /\ Reached(1)
  /\ DOMAIN call[1].stats = {"a1"}
  /\ call[1].stats["a1"].Stats["cmd_set"] = <<"1", "0", "0">>
  /\ SentValues(1, "memcached_commands_total", <<"set", "hit">>) = {F(90)}

C3_WitnessShortCircuit ==
  /\ Done(1) /\ Reached(1)
  /\ DOMAIN call[1].stats = {"a1"}
  /\ ~Parsable(call[1].stats["a1"].Stats, "cmd_set")
  /\ ~Parsable(call[1].stats["a1"].Stats, "cas_hits")
  /\ SentValues(1, "memcached_commands_total", <<"set", "hit">>) = {NaN}
  /\ Logged(1, "Failed to parse cas") = {}

ItemIdentifier(m) ==
  CASE m = "crawler_reclaimed" -> "memcached_slab_items_crawler_reclaimed_total"
    [] m = "evicted"           -> "memcached_slab_items_evicted_total"
    [] m = "evicted_nonzero"   -> "memcached_slab_items_evicted_nonzero_total"
    [] m = "evicted_time"      -> "memcached_slab_items_evicted_time_seconds"
    [] m = "evicted_unfetched" -> "memcached_slab_items_evicted_unfetched_total"
    [] m = "expired_unfetched" -> "memcached_slab_items_expired_unfetched_total"
    [] m = "outofmemory"       -> "memcached_slab_items_outofmemory_total"
    [] m = "reclaimed"         -> "memcached_slab_items_reclaimed_total"
    [] m = "tailrepairs"       -> "memcached_slab_items_tailrepairs_total"
    [] m = "moves_to_cold"     -> "memcached_slab_items_moves_to_cold"
    [] m = "moves_to_warm"     -> "memcached_slab_items_moves_to_warm"
    [] m = "moves_within_lru"  -> "memcached_slab_items_moves_within_lru"

OptionalCounters ==
  {"crawler_reclaimed", "evicted", "evicted_nonzero", "evicted_time",
   "evicted_unfetched", "expired_unfetched", "outofmemory", "reclaimed",
   "tailrepairs", "moves_to_cold", "moves_to_warm", "moves_within_lru"}

(* The item mappings of slab class slab that hold key m, by server.        *)
Holding(c, slab, m) ==
  {a \in DOMAIN call[c].stats :
     /\ slab \in DOMAIN call[c].stats[a].Items
     /\ m \in DOMAIN call[c].stats[a].Items[slab]}

(* C4: for every slab class of the item-stats mapping and every optional   *)
(* item counter, no observation for the pair when the raw key is absent,   *)
(* and exactly one, with the parsed value, when it is present.             *)
C4_OptionalItemCounters ==
  \A c \in Calls :
    (Done(c) /\ Reached(c)) =>
      LET ids == {ItemIdentifier(m) : m \in OptionalCounters}
          sent == SelectSeq(ch[c], LAMBDA o : o.desc.fqName \in ids)
          Count(m, slab) ==
            Cardinality({i \in DOMAIN sent :
                           /\ sent[i].desc.fqName = ItemIdentifier(m)
                           /\ sent[i].labelValues = <<SlabLabel(slab)>>})
          Values(m, slab) ==
            {sent[i].value : i \in {j \in DOMAIN sent :
                                      /\ sent[j].desc.fqName = ItemIdentifier(m)
                                      /\ sent[j].labelValues = <<SlabLabel(slab)>>}}
      IN \A slab \in {1, 2, 12}, m \in OptionalCounters :
           /\ Count(m, slab) = Cardinality(Holding(c, slab, m))
           /\ Values(m, slab)
                = {FieldValue(call[c].stats[a].Items[slab], m) : a \in Holding(c, slab, m)}

C4_Witness ==
  /\ Done(1) /\ Reached(1)
  /\ DOMAIN call[1].stats = {"a1"}
  /\ DOMAIN call[1].stats["a1"].Items = {1}
  /\ "evicted_unfetched" \in DOMAIN call[1].stats["a1"].Items[1]
  /\ call[1].stats["a1"].Items[1]["evicted_unfetched"] = <<"0">>
  /\ "evicted" \notin DOMAIN call[1].stats["a1"].Items[1]
  /\ SentValues(1, "memcached_slab_items_evicted_unfetched_total", <<"1">>) = {F(0)}
  /\ Sent(1, "memcached_slab_items_evicted_total", <<"1">>) = {}

SameResults(c, d) ==
  /\ call[c].newErr = call[d].newErr
  /\ call[c].statsErr = call[d].statsErr
  /\ call[c].settingsErr = call[d].settingsErr
  /\ call[c].stats = call[d].stats
  /\ call[c].statsSettings = call[d].statsSettings

(* C5: two cycles in succession on the same provider results send the same *)
(* observations: identifiers, label values, values, each as often.         *)
C5_Idempotence ==
  (Done(1) /\ Done(2) /\ SameResults(1, 2)) => BagOf(ch[1]) = BagOf(ch[2])

C5_Witness ==
  /\ Done(1) /\ Done(2) /\ SameResults(1, 2)
  /\ Reached(1) /\ call[1].settingsErr = "ok"
  /\ ch[1] # ch[2]
  /\ Len(ch[1]) > 40

SlabHolders(c, slab) ==
  {a \in DOMAIN call[c].stats : slab \in DOMAIN call[c].stats[a].Slabs}

(* C6: the (slab, command = set, status = hit) observation of a slab class *)
(* is cmd_set - (cas_hits + cas_badval) of that slab's own mapping,        *)
(* not-a-number when one of the three is missing or unparsable; cas_misses *)
(* has no part in it, nor has any other slab class or the global mapping,  *)
(* whose own derived observation stands beside it.                         *)
C6_SlabSetDerivation ==
  \A c \in Calls :
    (Done(c) /\ Reached(c)) =>
      /\ \A slab \in {1, 2, 12} :
           /\ SentValues(c, "memcached_slab_commands_total", <<SlabLabel(slab), "set", "hit">>)
                = {SlabSetExpected(call[c].stats[a].Slabs[slab]) : a \in SlabHolders(c, slab)}
           /\ Cardinality(Sent(c, "memcached_slab_commands_total",
                               <<SlabLabel(slab), "set", "hit">>))
                = Cardinality(SlabHolders(c, slab))
      /\ SentValues(c, "memcached_commands_total", <<"set", "hit">>)
           = {GlobalSetExpected(call[c].stats[a].Stats) : a \in DOMAIN call[c].stats}

C6_Witness ==
  /\ Done(1) /\ Reached(1)
  /\ DOMAIN call[1].stats = {"a1"}
  /\ DOMAIN call[1].stats["a1"].Slabs = {1, 2}
  /\ "cas_misses" \notin DOMAIN call[1].stats["a1"].Slabs[1]
  /\ SentValues(1, "memcached_slab_commands_total", <<"1", "set", "hit">>) = {F(35)}
  /\ SentValues(1, "memcached_slab_commands_total", <<"2", "set", "hit">>) = {NaN}
  /\ SentValues(1, "memcached_commands_total", <<"set", "hit">>) = {NaN}

C8_ParseBool ==
  ret.fn = "parseBool" =>
    LET key == arg.keys[1]
        present == key \in DOMAIN arg.stats
    IN /\ (present /\ arg.stats[key] = <<"y", "e", "s">>) => ret.v = F(1)
       /\ (present /\ arg.stats[key] = <<"n", "o">>) => ret.v = F(0)
       /\ (~present \/ arg.stats[key] \notin {<<"y", "e", "s">>, <<"n", "o">>})
            => ret.v = NaN

C8_Witness ==
  /\ ret.fn = "parseBool"
  /\ arg.keys = <<"x">>
  /\ "x" \in DOMAIN arg.stats
  /\ arg.stats["x"] = <<"o", "n">>
  /\ ret.v = NaN

CatalogOf(ex) == {ex[f] : f \in (DOMAIN ex) \ {"address", "timeout"}}

FieldNames ==
  {"up", "uptime_seconds", "version", "read_bytes_total", "written_bytes_total",
   "current_connections", "max_connections", "connections_total",
   "connections_yielded_total", "connections_listener_disabled_total",
   "current_bytes", "limit_bytes", "commands_total", "current_items", "items_total",
   "items_evicted_total", "items_reclaimed_total", "enabled", "sleep", "to_crawl",
   "maintainer_thread", "hot_percent", "warm_percent", "hot_max_factor",
   "warm_max_factor", "starts", "reclaimed_total", "items_checked_total",
   "moves_to_cold_total", "moves_to_warm_total", "moves_within_lru_total",
   "malloced_bytes", "items_age_seconds", "items_crawler_reclaimed_total",
   "items_evicted_nonzero_total", "items_evicted_time_seconds",
   "items_evicted_unfetched_total", "items_expired_unfetched_total",
   "items_outofmemory_total", "items_tailrepairs_total", "items_moves_to_cold",
   "items_moves_to_warm", "items_moves_within_lru", "chunk_size_bytes",
   "chunks_per_page", "current_pages", "current_chunks", "chunks_used",
   "chunks_free", "chunks_free_end", "mem_requested_bytes"}

InNamespace(fqName) ==
  \E sub \in {"", "_lru_crawler", "_slab"}, name \in FieldNames :
    fqName = "memcached" \o sub \o "_" \o name

(* C9: every entry of the catalog has an identifier made of the namespace  *)
(* "memcached", then no subsystem, "lru_crawler" or "slab", then the field *)
(* name.                                                                   *)
C9_CatalogInNamespace == \A d \in CatalogOf(e) : InNamespace(d.fqName)

RECURSIVE SetToSeq(_)
SetToSeq(S) ==
  IF S = {} THEN <<>>
  ELSE LET x == CHOOSE y \in S : TRUE IN <<x>> \o SetToSeq(S \ {x})

RECURSIVE AloneItems(_, _, _)
AloneItems(ex, items, slabs) ==
  IF slabs = <<>> THEN <<>>
  ELSE ItemsBlock(ex, Head(slabs), items[Head(slabs)], itemsMetricsKeys)
       \o AloneItems(ex, items, Tail(slabs))

RECURSIVE AloneSlabs(_, _, _)
AloneSlabs(ex, slabs, ids) ==
  IF ids = <<>> THEN <<>>
  ELSE SlabBlock(ex, Head(ids), slabs[Head(ids)]) \o AloneSlabs(ex, slabs, Tail(ids))

RECURSIVE AloneServers(_, _, _)
AloneServers(ex, stats, addrs) ==
  IF addrs = <<>> THEN <<>>
  ELSE LET t == stats[Head(addrs)]
       IN GlobalBlock(ex, t.Stats)
          \o AloneItems(ex, t.Items, SetToSeq(DOMAIN t.Items))
          \o AloneSlabs(ex, t.Slabs, SetToSeq(DOMAIN t.Slabs))
          \o AloneServers(ex, stats, Tail(addrs))

RECURSIVE AloneSettings(_, _, _)
AloneSettings(ex, statsSettings, addrs) ==
  IF addrs = <<>> THEN <<>>
  ELSE SettingsBlock(ex, statsSettings[Head(addrs)])
       \o AloneSettings(ex, statsSettings, Tail(addrs))

Alone(ex, l) ==
  IF l.newErr = "err" \/ l.statsErr = "err" THEN <<UpObservation(0)>>
  ELSE <<UpObservation(1)>>
       \o Metrics(AloneServers(ex, l.stats, SetToSeq(DOMAIN l.stats)))
       \o Metrics(AloneSettings(ex, l.statsSettings, SetToSeq(DOMAIN l.statsSettings)))

(* C10: of two overlapping Collect calls each sends exactly the            *)
(* observations it sends running alone on the results it received, and the *)
(* Exporter stays as NewExporter built it.                                 *)
C10_OverlappingCalls ==
  /\ e = NewExporter("localhost:11211", "1s")
  /\ \A c \in Calls :
       Done(c) =>
         BagOf(ch[c]) = BagOf(Alone(NewExporter("localhost:11211", "1s"), call[c]))

(* Call 1 began first and has not returned; call 2 ran to its end within   *)
(* it, on other statistics.                                                *)
C10_Witness ==
  /\ call[1].pc = "settingsLoop"
  /\ Done(2) /\ Reached(2) /\ call[2].settingsErr = "ok"
  /\ call[1].stats # call[2].stats
  /\ call[1].stats # EmptyMap /\ call[2].stats # EmptyMap
  /\ Len(ch[2]) > 40

UpSent(c) == Sent(c, "memcached_up", <<>>)

(* C11: a Collect cycle sends exactly one "up" observation, from the stats *)
(* step on and never a second one; its value is 1 exactly when client      *)
(* construction and the stats fetch both succeeded, whatever the settings  *)
(* fetch gave, whatever fields failed to parse and however many server     *)
(* records the stats fetch returned.                                       *)
C11_ExactlyOneUp ==
  \A c \in Calls :
    /\ Cardinality(UpSent(c)) <= 1
    /\ call[c].pc \notin {"idle", "stats"} =>
         /\ Cardinality(UpSent(c)) = 1
         /\ SentValues(c, "memcached_up", <<>>)
              = {IF call[c].newErr = "ok" /\ call[c].statsErr = "ok" THEN F(1) ELSE F(0)}

(* Call 1 got two server records and then failed to fetch the settings;    *)
(* call 2 failed to fetch the stats.                                       *)
C11_Witness ==
  /\ Done(1) /\ Reached(1) /\ call[1].settingsErr = "err"
  /\ Cardinality(DOMAIN call[1].stats) = 2
  /\ SentValues(1, "memcached_up", <<>>) = {F(1)}
  /\ Len(ch[1]) > 40
  /\ Done(2) /\ call[2].statsErr = "err"
  /\ SentValues(2, "memcached_up", <<>>) = {F(0)}

(* The eight gauges of a slab class: identifier and raw field.             *)
SlabGauges ==
  << <<"memcached_slab_chunk_size_bytes", "chunk_size">>,
     <<"memcached_slab_chunks_per_page", "chunks_per_page">>,
     <<"memcached_slab_current_pages", "total_pages">>,
     <<"memcached_slab_current_chunks", "total_chunks">>,
     <<"memcached_slab_chunks_used", "used_chunks">>,
     <<"memcached_slab_chunks_free", "free_chunks">>,
     <<"memcached_slab_chunks_free_end", "free_chunks_end">>,
     <<"memcached_slab_mem_requested_bytes", "mem_requested">> >>

SlabIdentifiers ==
  {"memcached_slab_commands_total"} \cup {SlabGauges[i][1] : i \in DOMAIN SlabGauges}

(* The allocator observations a call sent under one slab label.            *)
SlabSent(c, label) ==
  SelectSeq(ch[c], LAMBDA o : /\ o.desc.fqName \in SlabIdentifiers
                              /\ o.labelValues[1] = label)

CountOf(seq, fqName, labelValues) ==
  Cardinality({i \in DOMAIN seq :
                 seq[i].desc.fqName = fqName /\ seq[i].labelValues = labelValues})

ValuesOf(seq, fqName, labelValues) ==
  {seq[i].value : i \in {j \in DOMAIN seq :
                           seq[j].desc.fqName = fqName /\ seq[j].labelValues = labelValues}}

(* C12: for each slab class of the allocator-stats mapping of a server     *)
(* record the cycle sends, labelled by that slab class: six hit/miss       *)
(* command observations, one for each of the verbs get, delete, incr,      *)
(* decr, cas, touch; the CAS-bad-value observation; the derived set        *)
(* observation; and the eight gauges. Each is there whatever fields the    *)
(* mapping holds, with the value of its field, not-a-number when the field *)
(* is missing or malformed; a slab class no mapping holds has none.        *)
C12_SlabAllocatorObservations ==
  \A c \in Calls :
    (Done(c) /\ Reached(c)) =>
      \A slab \in {1, 2, 12} :
        LET label == SlabLabel(slab)
            sent == SlabSent(c, label)
            holders == SlabHolders(c, slab)
            n == Cardinality(holders)
            Field(k) == {FieldValue(call[c].stats[a].Slabs[slab], k) : a \in holders}
            Commands(op) ==
              {i \in DOMAIN sent :
                 /\ sent[i].desc.fqName = "memcached_slab_commands_total"
                 /\ sent[i].labelValues[2] = op
                 /\ sent[i].labelValues[3] \in {"hit", "miss"}}
        IN /\ Len(sent) = 16 * n
           /\ \A j \in DOMAIN Ops :
                /\ Cardinality(Commands(Ops[j])) = n
                /\ {sent[i].value : i \in Commands(Ops[j])} = Field(Ops[j] \o "_hits")
           /\ CountOf(sent, "memcached_slab_commands_total", <<label, "cas", "badval">>) = n
           /\ ValuesOf(sent, "memcached_slab_commands_total", <<label, "cas", "badval">>)
                = Field("cas_badval")
           /\ CountOf(sent, "memcached_slab_commands_total", <<label, "set", "hit">>) = n
           /\ \A g \in DOMAIN SlabGauges :
                /\ CountOf(sent, SlabGauges[g][1], <<label>>) = n
                /\ ValuesOf(sent, SlabGauges[g][1], <<label>>) = Field(SlabGauges[g][2])

(* A slab class whose mapping lacks touch_hits: its touch observation is   *)
(* there, not-a-number, beside the fifteen others.                         *)
C12_Witness ==
  /\ Done(1) /\ Reached(1)
  /\ DOMAIN call[1].stats = {"a1"}
  /\ DOMAIN call[1].stats["a1"].Slabs = {1}
  /\ "touch_hits" \notin DOMAIN call[1].stats["a1"].Slabs[1]
  /\ SentValues(1, "memcached_slab_commands_total", <<"1", "touch", "hit">>) = {NaN}
  /\ SentValues(1, "memcached_slab_chunk_size_bytes", <<"1">>) = {F(96)}
  /\ Len(SlabSent(1, "1")) = 16

Triples(seq) ==
  [i \in DOMAIN seq |-> <<seq[i].desc.fqName, seq[i].labelValues, seq[i].value>>]

(* C13: two cycles run on the same provider results send the same sequence *)
(* of (metric identifier, label values, value): the server records, the    *)
(* slab classes of the item and of the allocator mappings, and the         *)
(* optional item counters of one slab class each come in one fixed order.  *)
C13_DeterministicSequence ==
  (Done(1) /\ Done(2) /\ SameResults(1, 2)) => Triples(ch[1]) = Triples(ch[2])

SameSeries(o, q) == o.desc.fqName = q.desc.fqName /\ o.labelValues = q.labelValues

(* C14: in the output of one Collect cycle no two observations have the    *)
(* same metric identifier and the same label values, however many server   *)
(* records the stats fetch and settings records the settings fetch gave.   *)
C14_NoDuplicateSeries ==
  \A c \in Calls :
    \A i, j \in DOMAIN ch[c] : SameSeries(ch[c][i], ch[c][j]) => i = j

(* C15: Describe sends each descriptor of the Exporter's catalog exactly   *)
(* once, none omitted and none repeated, and every observation a Collect   *)
(* call sends is built on a descriptor Describe sent.                      *)
C15_DescribeMatchesCollect ==
  dch # <<>> =>
    /\ \A d \in CatalogOf(e) : Cardinality({i \in DOMAIN dch : dch[i] = d}) = 1
    /\ \A c \in Calls : \A i \in DOMAIN ch[c] : ch[c][i].desc \in Range(dch)
====
